---- MODULE Spec2Model ----
(***************************************************************************)
(* Model of the roadworks matching demo server.                            *)
(*                                                                         *)
(*   server/matching.py  RoadMatcher: catalog load, index, match           *)
(*   server/app.py       stream_roadworks: one websocket session with a    *)
(*                       batch task (stream_events) and a control loop     *)
(*                                                                         *)
(* Longitudes and latitudes are integers in micro-degrees, metric          *)
(* coordinates and distances are integers in centimetres.  Road geometries *)
(* are two-vertex axis-parallel polylines close to the equator, where the  *)
(* Web Mercator frame is linear in both axes.                              *)
(***************************************************************************)
EXTENDS Integers, Sequences, FiniteSets, TLC

(***************************************************************************)
(* Optional values: <<>> is Python's None (or an absent key), <<v>> is v.  *)
(***************************************************************************)
None == <<>>

Some(v) == <<v>>

NoId == "None"

Abs(n) == IF n < 0 THEN -n ELSE n

Min(a, b) == IF a <= b THEN a ELSE b

Max(a, b) == IF a >= b THEN a ELSE b

Range(s) == {s[i] : i \in 1..Len(s)}

(***************************************************************************)
(* matching.py : the road table read by _load_roads.  kind is what        *)
(* wkb.loads makes of the geometry_wkb column: a LineString, another       *)
(* geometry type, or "undecodable" when it raises.                         *)
(***************************************************************************)
RoadsTable ==
  << [segment_id |-> "a", class |-> "residential", kind |-> "LineString",
      x1 |-> 0, y1 |-> 0, x2 |-> 0, y2 |-> 1000],
     [segment_id |-> "f", class |-> "footway", kind |-> "LineString",
      x1 |-> 100, y1 |-> 0, x2 |-> 100, y2 |-> 1000],
     [segment_id |-> "b", class |-> "primary", kind |-> "LineString",
      x1 |-> 3000, y1 |-> 0, x2 |-> 4000, y2 |-> 0],
     [segment_id |-> "p", class |-> "primary", kind |-> "Point",
      x1 |-> 3500, y1 |-> 100, x2 |-> 3500, y2 |-> 100],
     [segment_id |-> "u", class |-> "primary", kind |-> "undecodable",
      x1 |-> 0, y1 |-> 0, x2 |-> 0, y2 |-> 0],
     [segment_id |-> "c", class |-> "secondary", kind |-> "LineString",
      x1 |-> 0, y1 |-> 500, x2 |-> 1000, y2 |-> 500] >>

EXCLUDED_CLASSES ==
  {"footway", "steps", "cycleway", "path", "pedestrian", "track", "service", "bridleway"}

\* MatchingConfig.radius_m = 50.0, in millimetres
radius_m == 50000

\* _load_roads without the isinstance test of line 100
valid_to_table_indexAnyGeometry(table) ==
  SelectSeq([i \in 1..Len(table) |-> i],
            LAMBDA i : /\ table[i].class \notin EXCLUDED_CLASSES
                       /\ table[i].kind # "undecodable")

\* _load_roads, lines 93-106 : the table rows that are kept, in table order
valid_to_table_index(table) ==
  SelectSeq([i \in 1..Len(table) |-> i],
            LAMBDA i : /\ table[i].class \notin EXCLUDED_CLASSES
                       /\ table[i].kind = "LineString")

geometries(table, valid) == [k \in 1..Len(valid) |-> table[valid[k]]]

segment_ids(table, valid) == [k \in 1..Len(valid) |-> table[valid[k]].segment_id]

\* _build_index : the tree exists only when there is a geometry
tree_built(valid) == Len(valid) > 0

\* the object _load_roads and _build_index leave, given the rows kept
Loaded(table, radius, valid) ==
  [radius_m |-> radius,
   table |-> table,
   valid_to_table_index |-> valid,
   geometries |-> geometries(table, valid),
   segment_ids |-> segment_ids(table, valid),
   tree |-> tree_built(valid)]

\* RoadMatcher.__init__
RoadMatcher(table, radius) == Loaded(table, radius, valid_to_table_index(table))

\* lifespan : matcher = RoadMatcher(roads_path, radius_m=config.matching.radius_m)
matcher == RoadMatcher(RoadsTable, radius_m)

\* _load_roads : id_to_index keeps the last slot written for an id
LastOf(slots) == IF slots = {} THEN None ELSE Some(CHOOSE k \in slots : \A j \in slots : j <= k)

id_to_index(self, id) ==
  LastOf({k \in 1..Len(self.segment_ids) : self.segment_ids[k] = id})

\* Transformer EPSG:4326 -> EPSG:3857 near the equator: 11.132 cm per micro-degree
to_metric(deg) == (deg * 11132) \div 1000

\* match : buffer_deg = radius_m / 111000 * 1.5, in micro-degrees
buffer_deg(self) == (self.radius_m * 15) \div 1110

Clamp(v, lo, hi) == Max(lo, Min(hi, v))

\* geom.interpolate(geom.project(point)) for an axis-parallel two-vertex line
Snap(g, lon, lat) ==
  [x |-> Clamp(lon, Min(g.x1, g.x2), Max(g.x1, g.x2)),
   y |-> Clamp(lat, Min(g.y1, g.y2), Max(g.y1, g.y2))]

\* a geometry's extent meets the extent of the point buffered by buffer
MeetsBuffer(g, lon, lat, buffer) ==
  /\ Min(g.x1, g.x2) <= lon + buffer
  /\ Max(g.x1, g.x2) >= lon - buffer
  /\ Min(g.y1, g.y2) <= lat + buffer
  /\ Max(g.y1, g.y2) >= lat - buffer

\* tree.query(point.buffer(buffer_deg)) : slots whose extent meets the buffer's extent
tree_query(self, lon, lat) ==
  {k \in 1..Len(self.geometries) : MeetsBuffer(self.geometries[k], lon, lat, buffer_deg(self))}

\* squared planar distance, cm^2
Distance2(lon, lat, s) ==
  LET dx == to_metric(lon) - to_metric(s.x)
      dy == to_metric(lat) - to_metric(s.y)
  IN  dx * dx + dy * dy

\* the largest whole number of cm^2 not above the square of a radius of
\* q cm and s mm (s in 0..9)
SquareOf(q, s) == q * q + (20 * q * s + s * s) \div 100

\* line 225 : distance_m > self.radius_m, for a squared distance in cm^2
BeyondRadius(distance2, radius) == distance2 > SquareOf(radius \div 10, radius % 10)

\* the whole part of a square root, by bisection; the midpoint is bound to
\* its value before the search goes on
RECURSIVE SqrtSearch(_, _, _)
SqrtSearch(n, lo, hi) ==
  IF lo >= hi THEN lo
  ELSE CHOOSE r \in {IF mid * mid <= n THEN SqrtSearch(n, mid, hi) ELSE SqrtSearch(n, lo, mid - 1) :
                       mid \in {(lo + hi + 1) \div 2}} : TRUE

\* round(sqrt(n), 2) in metres: the nearest centimetre
RoundSqrt(n) ==
  CHOOSE d \in UNION {{IF m - r * r > r THEN r + 1 ELSE r : r \in {SqrtSearch(m, 0, 20000)}} :
                        m \in {n}} : TRUE

\* _compute_bearing : degrees(atan2(dx, dy)) % 360 of a two-vertex line that
\* is parallel to an axis or to a diagonal (atan2(0, 0) is 0)
_compute_bearing(g) ==
  IF g.x2 = g.x1 THEN (IF g.y2 >= g.y1 THEN 0 ELSE 180)
  ELSE IF g.y2 = g.y1 THEN (IF g.x2 > g.x1 THEN 90 ELSE 270)
  ELSE IF g.x2 > g.x1 THEN (IF g.y2 > g.y1 THEN 45 ELSE 135)
  ELSE (IF g.y2 > g.y1 THEN 315 ELSE 225)

\* _choose_direction, lines 148-151 : the difference compared with 90
direction_diff(heading, line_bearing) ==
  IF Abs(heading - line_bearing) > 180
  THEN 360 - Abs(heading - line_bearing)
  ELSE Abs(heading - line_bearing)

\* _choose_direction
_choose_direction(g, heading) ==
  IF heading = None THEN "fwd"
  ELSE IF direction_diff(heading[1], _compute_bearing(g)) <= 90 THEN "fwd" ELSE "rev"

\* match, line 231 alone, without the reflection of lines 232-233
alignment_diffUnreflected(heading, bearing) == Abs(heading - bearing) % 180

\* match, lines 231-233 : the difference compared with 60
alignment_diff(heading, bearing) ==
  IF (Abs(heading - bearing) % 180) > 90
  THEN 180 - (Abs(heading - bearing) % 180)
  ELSE (Abs(heading - bearing) % 180)

\* match, lines 229-239 : the alignment flag of one candidate
is_aligned(g, heading) ==
  IF heading = None THEN TRUE
  ELSE alignment_diff(heading[1], _compute_bearing(g)) <= 60

Unmatched ==
  [matched |-> FALSE, segment_id |-> NoId, display_segment_key |-> NoId,
   directed_id |-> NoId, match_distance_m |-> None, snapped |-> None]

\* match, lines 214-247 : the possible_matches entry of slot idx; distance is
\* kept squared (cm^2), which orders and compares as the distance does
CandidateAt(seg_id, idx, geom, snapped, lon, lat, heading) ==
  [segment_id |-> seg_id,
   distance |-> Distance2(lon, lat, snapped),
   snapped |-> snapped,
   aligned |-> is_aligned(geom, heading),
   index |-> idx]

Candidate(self, idx, lon, lat, heading) ==
  CandidateAt(self.segment_ids[idx], idx, self.geometries[idx],
              Snap(self.geometries[idx], lon, lat), lon, lat, heading)

\* variant: every candidate of the query is kept, without the radius test
possible_matchesUnfiltered(self, lon, lat, heading) ==
  {Candidate(self, idx, lon, lat, heading) : idx \in tree_query(self, lon, lat)}

\* match, lines 205-247 : candidates of the query that pass the radius test
possible_matches(self, lon, lat, heading) ==
  {c \in {Candidate(self, idx, lon, lat, heading) : idx \in tree_query(self, lon, lat)} :
      ~BeyondRadius(c.distance, self.radius_m)}

\* variant: the sort key is the distance alone
SortsBeforeNearest(c, d) ==
  \/ c.distance < d.distance
  \/ c.distance = d.distance /\ c.index <= d.index

\* match, line 255 : the sort key (not aligned, distance); the sort is stable
\* and the candidates come in slot order
SortsBefore(c, d) ==
  \/ c.aligned /\ ~d.aligned
  \/ c.aligned = d.aligned /\ c.distance < d.distance
  \/ c.aligned = d.aligned /\ c.distance = d.distance /\ c.index <= d.index

\* match, lines 257-276
MatchResult(self, best, heading) ==
  [matched |-> TRUE,
   segment_id |-> best.segment_id,
   display_segment_key |-> best.segment_id,
   directed_id |-> <<best.segment_id, _choose_direction(self.geometries[best.index], heading)>>,
   match_distance_m |-> Some(RoundSqrt(best.distance)),
   snapped |-> Some(best.snapped)]

\* match, lines 249-257
\* (sorted and best are bound to their values, as the locals of the code are)
BestOf(self, matches, heading) ==
  CHOOSE result \in
    UNION { IF sorted = {} THEN {Unmatched}
            ELSE {MatchResult(self, best, heading) :
                    best \in {CHOOSE c \in sorted : \A d \in sorted : SortsBefore(c, d)}} :
            sorted \in {matches} } : TRUE

\* match without lines 195-196 : the query on a tree that is None raises
matchWithoutTreeTest(self, lon, lat, heading) ==
  IF ~self.tree THEN [raised |-> "AttributeError"]
  ELSE BestOf(self, possible_matches(self, lon, lat, heading), heading)

\* RoadMatcher.match
match(self, lon, lat, heading) ==
  IF ~self.tree THEN Unmatched
  ELSE BestOf(self, possible_matches(self, lon, lat, heading), heading)

\* get_segment / _create_segment_object / get_segment_geojson
Feature(self, idx) ==
  Some([segment_id |-> self.segment_ids[idx],
        display_segment_key |-> self.segment_ids[idx],
        class |-> self.table[self.valid_to_table_index[idx]].class])

\* get_segment with "if not idx" in place of "if idx is None" : slot 0 is lost
SegmentAtFalsy(self, found) ==
  IF found = None \/ found[1] = 1 THEN None ELSE Feature(self, found[1])

SegmentAt(self, found) == IF found = None THEN None ELSE Feature(self, found[1])

get_segment_geojson(self, id) == SegmentAt(self, id_to_index(self, id))

(***************************************************************************)
(* app.py : one websocket session of stream_roadworks, after accept() with *)
(* the matcher loaded.                                                     *)
(***************************************************************************)

\* JSON values a control message can carry for batch_size and tick_ms
JsonInt(n) == [num |-> TRUE, val |-> n]

JsonText == [num |-> FALSE, val |-> 0]

MaxEvents == 2

MaxRestarts == 1

MaxSpeedMsgs == 1

MaxIdle == 2

\* load_events : the roadworks events of an uploaded file, sorted by timestamp.
\* The uploads considered are the runs of up to MaxEvents consecutive events
\* of one feed.
Feed ==
  << [event_id |-> 1, lon |-> 10000, lat |-> 500, heading |-> None],
     [event_id |-> 2, lon |-> 100, lat |-> 300, heading |-> None],
     [event_id |-> 3, lon |-> 100, lat |-> 400, heading |-> Some(10)],
     [event_id |-> 4, lon |-> 3500, lat |-> 100, heading |-> Some(270)],
     [event_id |-> 5, lon |-> 20000, lat |-> 0, heading |-> Some(90)] >>

EventSeqs ==
  { SubSeq(Feed, w[1], w[1] + w[2] - 1) :
      w \in {v \in (1..Len(Feed)) \X (0..MaxEvents) : v[1] + v[2] - 1 <= Len(Feed)} }

\* Query(ge=1, le=500) batch sizes and Query(ge=10, le=1000) tick of a new session
QueryBatchSizes == {1, 2}

QueryTickMs == {50}

\* values of "batch_size" / "tick_ms" in a set_speed message; None is an absent key
SpeedMessages ==
  { [batch_size |-> Some(JsonInt(-1)), tick_ms |-> None],
    [batch_size |-> Some(JsonInt(0)), tick_ms |-> None],
    [batch_size |-> Some(JsonInt(1)), tick_ms |-> None],
    [batch_size |-> Some(JsonInt(2)), tick_ms |-> Some(JsonInt(10))],
    [batch_size |-> Some(JsonText), tick_ms |-> None],
    [batch_size |-> None, tick_ms |-> Some(JsonText)] }

(***************************************************************************)
(* matching.py called on its own: the catalogs a matcher is loaded from,   *)
(* the radii it is configured with and the arguments of the calls.         *)
(***************************************************************************)
Road(id, class, kind, x1, y1, x2, y2) ==
  [segment_id |-> id, class |-> class, kind |-> kind,
   x1 |-> x1, y1 |-> y1, x2 |-> x2, y2 |-> y2]

\* a table without rows; one whose rows are all skipped; one where an id
\* occurs twice, the second time on a line drawn southwards
Catalogs ==
  { RoadsTable,
    << >>,
    << Road("f", "footway", "LineString", 100, 0, 100, 1000),
       Road("s", "service", "LineString", 0, 0, 1000, 0),
       Road("p", "primary", "Point", 3500, 100, 3500, 100),
       Road("u", "primary", "undecodable", 0, 0, 0, 0) >>,
    << Road("a", "residential", "LineString", 0, 0, 0, 1000),
       Road("t", "track", "LineString", 200, 0, 200, 1000),
       Road("a", "tertiary", "LineString", 300, 1000, 300, 0),
       Road("w", "unknown", "LineString", 1000, 500, 0, 500) >> }

\* MATCH_RADIUS_M (config.py line 55), in millimetres
Radii == {radius_m, 10019}

Lons == {0, 90, 200, 500, 3500, 10000}

Lats == {0, 300, 450, 1003, 1300}

\* event.get("heading") : absent, or whatever number the feed carries
Headings == {None, Some(0), Some(80), Some(180), Some(-270), Some(540)}

\* ids asked of get_segment_geojson
Ids == {"a", "b", "c", "f", "p", "u", "s", "t", "w", "zz"}

\* two-vertex lines in the eight compass directions and a line without length
Lines ==
  { Road("l", "primary", "LineString", 0, 0, v[1], v[2]) :
      v \in {<<0, 100>>, <<100, 100>>, <<100, 0>>, <<100, -100>>, <<0, -100>>,
             <<-100, -100>>, <<-100, 0>>, <<-100, 100>>, <<0, 0>>} }

AngleHeadings == {-450, -270, -180, -90, -1, 0, 45, 60, 61, 90, 91, 120, 180, 269, 359, 360, 540, 725}

NoCall == [op |-> "none"]

VARIABLES roadworks_events, sent_segments, event_idx, paused,
          current_batch_size, current_tick_ms, tasks, handler, log, speed_msgs, idle,
          road_matcher, call

vars == <<roadworks_events, sent_segments, event_idx, paused,
          current_batch_size, current_tick_ms, tasks, handler, log, speed_msgs, idle,
          road_matcher, call>>

session == <<sent_segments, event_idx, paused, current_batch_size, current_tick_ms>>

\* asyncio.create_task(stream_events()) : a task that has not run yet
NewTask == [pc |-> "start", batch_end |-> 0, batch_messages |-> <<>>]

At(pc) == [pc |-> pc, batch_end |-> 0, batch_messages |-> <<>>]

\* the task the name stream_task refers to
stream_task == Len(tasks)

Finished(task) == task.pc \in {"done", "failed", "cancelled"}

\* Task.cancel() : a finished task stays as it is, a pending one is cancelled at its await
\* variant: cancel() that leaves the task running
cancelForgotten(ts, t) == ts

cancel(ts, t) == IF Finished(ts[t]) THEN ts ELSE [ts EXCEPT ![t] = At("cancelled")]

\* roadworks_events[i] for a Python index i
InRange(i) == -Len(roadworks_events) <= i /\ i < Len(roadworks_events)

PyIndex(i) == IF i >= 0 THEN roadworks_events[i + 1]
              ELSE roadworks_events[Len(roadworks_events) + i + 1]

SegmentMsg(result, feature) ==
  [type |-> "segment", segment_id |-> result.segment_id,
   display_segment_key |-> result.display_segment_key, properties |-> feature]

EventMsg(event, result) ==
  [type |-> "event", event_id |-> event.event_id, lon |-> event.lon, lat |-> event.lat,
   matched |-> result.matched, matched_segment_id |-> result.segment_id,
   display_segment_key |-> result.display_segment_key,
   match_distance_m |-> result.match_distance_m, snapped |-> result.snapped]

ProgressMsg(streamed, total, segments) ==
  [type |-> "progress", streamed |-> streamed, total |-> total, segments |-> segments]

CompleteMsg(total_events, total_segments, note) ==
  [type |-> "complete", total_events |-> total_events,
   total_segments |-> total_segments, message |-> note]

ErrorMsg == [type |-> "error"]

\* sent_segments.add(result.segment_id)
\* lines 323-327 : matcher.match(lon, lat, heading) of every event of the feed
MatchTable == [e \in Range(Feed) |-> match(matcher, e.lon, e.lat, e.heading)]

MatchOf(event) == MatchTable[event]

\* variant: the id is not recorded as announced
AddSentForgets(sent, id) == sent

\* variant: the event message is queued ahead of the segment message
AnnounceEventFirst(acc, event, result, feature, isnew) ==
  [ok   |-> TRUE,
   sent |-> IF isnew THEN acc.sent \cup {result.segment_id} ELSE acc.sent,
   msgs |-> IF isnew
            THEN acc.msgs \o <<EventMsg(event, result), SegmentMsg(result, feature[1])>>
            ELSE Append(acc.msgs, EventMsg(event, result))]

AddSent(sent, id) == sent \cup {id}

\* lines 329-364 : what one event adds to the accumulator [ok, sent, msgs]
Announce(acc, event, result, feature, isnew) ==
  [ok   |-> TRUE,
   sent |-> IF isnew THEN AddSent(acc.sent, result.segment_id) ELSE acc.sent,
   msgs |-> IF isnew
            THEN acc.msgs \o <<SegmentMsg(result, feature[1]), EventMsg(event, result)>>
            ELSE Append(acc.msgs, EventMsg(event, result))]

Matched(acc, event, result, feature) ==
  Announce(acc, event, result, feature,
           result.matched /\ result.segment_id \notin acc.sent /\ feature # None)

\* lines 320-340
ProcessEvent(acc, event, result) ==
  Matched(acc, event, result,
          IF result.matched THEN get_segment_geojson(matcher, result.segment_id) ELSE None)

\* lines 319-364 : "for i in range(event_idx, batch_end)" from i on;
\* ok is FALSE once roadworks_events[i] raised IndexError
RECURSIVE BuildBatch(_, _, _)
BuildBatch(i, batch_end, acc) ==
  IF i >= batch_end \/ ~acc.ok THEN acc
  ELSE IF ~InRange(i) THEN [ok |-> FALSE, sent |-> acc.sent, msgs |-> acc.msgs]
  ELSE CHOOSE batch \in
         UNION { {BuildBatch(i + 1, batch_end, next) :
                    next \in {ProcessEvent(acc, PyIndex(i), result)}} :
                 result \in {MatchOf(PyIndex(i))} } : TRUE

\* lines 366-368 : where the task stands once the batch is assembled
Assembled(batch_end, b) ==
  CHOOSE assembled \in
    { IF ~batch.ok THEN [task |-> At("failed"), sent |-> batch.sent]
      ELSE [task |-> [pc |-> IF batch.msgs = <<>> THEN "send_progress" ELSE "send_batch",
                      batch_end |-> batch_end, batch_messages |-> batch.msgs],
            sent |-> batch.sent] :
      batch \in {b} } : TRUE

\* line 316
BatchEnd == Min(event_idx + current_batch_size.val, Len(roadworks_events))

\* variant: the while body without the paused test of lines 312-314
RunLoopIgnoresPause ==
  IF event_idx < Len(roadworks_events)
  THEN IF ~current_batch_size.num
       THEN [task |-> At("failed"), sent |-> sent_segments]
       ELSE Assembled(BatchEnd,
                      BuildBatch(event_idx, BatchEnd,
                                 [ok |-> TRUE, sent |-> sent_segments, msgs |-> <<>>]))
  ELSE [task |-> At("send_complete"), sent |-> sent_segments]

\* stream_events from the while test (line 311) to its next await: the task
\* record and the announced set it leaves
RunLoop ==
  IF event_idx < Len(roadworks_events)
  THEN IF paused THEN [task |-> At("pause_sleep"), sent |-> sent_segments]
       ELSE IF ~current_batch_size.num
            THEN [task |-> At("failed"), sent |-> sent_segments]
            ELSE Assembled(BatchEnd,
                           BuildBatch(event_idx, BatchEnd,
                                      [ok |-> TRUE, sent |-> sent_segments, msgs |-> <<>>]))
  ELSE [task |-> At("send_complete"), sent |-> sent_segments]

\* the task t runs from the while test to its next await
\* (idle counts the batches of the session that held no event)
Continue(t) ==
  \E r \in {RunLoop} :
     /\ r.task.pc = "send_progress" => idle < MaxIdle
     /\ tasks' = [tasks EXCEPT ![t] = r.task]
     /\ sent_segments' = r.sent
     /\ idle' = IF r.task.pc = "send_progress" THEN idle + 1 ELSE idle

\* websocket.send_bytes succeeds while the endpoint is serving the socket
CanSend == handler = "receiving"

Init ==
  /\ roadworks_events \in EventSeqs
  /\ sent_segments = {}
  /\ event_idx = 0
  /\ paused = FALSE
  /\ current_batch_size \in {JsonInt(n) : n \in QueryBatchSizes}
  /\ current_tick_ms \in {JsonInt(n) : n \in QueryTickMs}
  /\ tasks = <<NewTask>>
  /\ handler = "receiving"
  /\ log = <<>>
  /\ speed_msgs = 0
  /\ idle = 0
  /\ road_matcher = matcher
  /\ call = NoCall

(***************************************************************************)
(* stream_events : one action per stretch of code between two awaits.      *)
(* pc names the await the task is suspended at (or about to make).         *)
(***************************************************************************)

\* lines 301-316 : first run of the task, up to its first await
\* variant: stream_events without the empty-list case of lines 301-309
StreamStartNoEmptyCase(t) ==
  /\ tasks[t].pc = "start"
  /\ Continue(t)
  /\ UNCHANGED <<road_matcher, call, roadworks_events, event_idx, paused, current_batch_size,
                 current_tick_ms, handler, log, speed_msgs>>

StreamStart(t) ==
  /\ tasks[t].pc = "start"
  /\ IF Len(roadworks_events) = 0
     THEN /\ tasks' = [tasks EXCEPT ![t] = At("send_empty")]
          /\ UNCHANGED <<sent_segments, idle>>
     ELSE Continue(t)
  /\ UNCHANGED <<road_matcher, call, roadworks_events, event_idx, paused, current_batch_size,
                 current_tick_ms, handler, log, speed_msgs>>

\* lines 303-309 : the complete message of an empty event list, then return
SendEmpty(t) ==
  /\ tasks[t].pc = "send_empty"
  /\ IF CanSend
     THEN /\ log' = Append(log, CompleteMsg(0, 0, TRUE))
          /\ tasks' = [tasks EXCEPT ![t] = At("done")]
     ELSE /\ log' = log
          /\ tasks' = [tasks EXCEPT ![t] = At("failed")]
  /\ UNCHANGED <<road_matcher, call, roadworks_events, session, handler, speed_msgs, idle>>

\* lines 312-314 : asyncio.sleep(0.1) returns, continue with the while test
PauseWake(t) ==
  /\ tasks[t].pc = "pause_sleep"
  /\ Continue(t)
  /\ UNCHANGED <<road_matcher, call, roadworks_events, event_idx, paused, current_batch_size,
                 current_tick_ms, handler, log, speed_msgs>>

\* lines 367-368 : send one message of the batch
SendBatchMessage(t) ==
  /\ tasks[t].pc = "send_batch"
  /\ IF CanSend
     THEN /\ log' = Append(log, Head(tasks[t].batch_messages))
          /\ tasks' = [tasks EXCEPT ![t] =
                         IF Tail(@.batch_messages) = <<>>
                         THEN [@ EXCEPT !.pc = "send_progress", !.batch_messages = <<>>]
                         ELSE [@ EXCEPT !.batch_messages = Tail(@)]]
     ELSE /\ log' = log
          /\ tasks' = [tasks EXCEPT ![t] = At("failed")]
  /\ UNCHANGED <<road_matcher, call, roadworks_events, session, handler, speed_msgs, idle>>

\* lines 370-380 : advance the cursor, send progress, start the pacing sleep
SendProgress(t) ==
  /\ tasks[t].pc = "send_progress"
  /\ event_idx' = tasks[t].batch_end
  /\ IF CanSend
     THEN /\ log' = Append(log, ProgressMsg(event_idx', Len(roadworks_events),
                                            Cardinality(sent_segments)))
          /\ tasks' = [tasks EXCEPT ![t] =
                         IF current_tick_ms.num THEN At("tick_sleep") ELSE At("failed")]
     ELSE /\ log' = log
          /\ tasks' = [tasks EXCEPT ![t] = At("failed")]
  /\ UNCHANGED <<road_matcher, call, roadworks_events, sent_segments, paused, current_batch_size,
                 current_tick_ms, handler, speed_msgs, idle>>

\* line 380 and 311-316 : the pacing sleep returns, continue with the while test
TickWake(t) ==
  /\ tasks[t].pc = "tick_sleep"
  /\ Continue(t)
  /\ UNCHANGED <<road_matcher, call, roadworks_events, event_idx, paused, current_batch_size,
                 current_tick_ms, handler, log, speed_msgs>>

\* lines 383-387 : the complete message after the loop
\* variant: the complete message is sent inside the loop, which goes on
SendCompleteInsideLoop(t) ==
  /\ tasks[t].pc = "send_complete"
  /\ IF CanSend
     THEN /\ log' = Append(log, CompleteMsg(Len(roadworks_events),
                                            Cardinality(sent_segments), FALSE))
          /\ tasks' = [tasks EXCEPT ![t] = At("tick_sleep")]
     ELSE /\ log' = log
          /\ tasks' = [tasks EXCEPT ![t] = At("failed")]
  /\ UNCHANGED <<road_matcher, call, roadworks_events, session, handler, speed_msgs, idle>>

SendComplete(t) ==
  /\ tasks[t].pc = "send_complete"
  /\ IF CanSend
     THEN /\ log' = Append(log, CompleteMsg(Len(roadworks_events),
                                            Cardinality(sent_segments), FALSE))
          /\ tasks' = [tasks EXCEPT ![t] = At("done")]
     ELSE /\ log' = log
          /\ tasks' = [tasks EXCEPT ![t] = At("failed")]
  /\ UNCHANGED <<road_matcher, call, roadworks_events, session, handler, speed_msgs, idle>>

TaskStep(t) ==
  \/ StreamStart(t)
  \/ SendEmpty(t)
  \/ PauseWake(t)
  \/ SendBatchMessage(t)
  \/ SendProgress(t)
  \/ TickWake(t)
  \/ SendComplete(t)

(***************************************************************************)
(* The control loop of stream_roadworks: one action per received message.  *)
(***************************************************************************)

\* msg.get(key, default)
MsgGet(field, default) == IF field = None THEN default ELSE field[1]

\* lines 397-398
RecvPause ==
  /\ handler = "receiving"
  /\ paused' = TRUE
  /\ UNCHANGED <<road_matcher, call, roadworks_events, sent_segments, event_idx, current_batch_size,
                 current_tick_ms, tasks, handler, log, speed_msgs, idle>>

\* lines 399-400
RecvResume ==
  /\ handler = "receiving"
  /\ paused' = FALSE
  /\ UNCHANGED <<road_matcher, call, roadworks_events, sent_segments, event_idx, current_batch_size,
                 current_tick_ms, tasks, handler, log, speed_msgs, idle>>

\* lines 401-403
RecvSetSpeed(msg) ==
  /\ handler = "receiving"
  /\ speed_msgs < MaxSpeedMsgs
  /\ speed_msgs' = speed_msgs + 1
  /\ current_batch_size' = MsgGet(msg.batch_size, current_batch_size)
  /\ current_tick_ms' = MsgGet(msg.tick_ms, current_tick_ms)
  /\ UNCHANGED <<road_matcher, call, roadworks_events, sent_segments, event_idx, paused, tasks, handler, log, idle>>

\* lines 404-410 ; the session's log starts again with the new task
RecvRestart ==
  /\ handler = "receiving"
  /\ Len(tasks) <= MaxRestarts
  /\ tasks' = Append(cancel(tasks, stream_task), NewTask)
  /\ event_idx' = 0
  /\ sent_segments' = {}
  /\ log' = <<>>
  /\ UNCHANGED <<road_matcher, call, roadworks_events, paused, current_batch_size, current_tick_ms, handler,
                 speed_msgs>>
  /\ idle' = 0

\* lines 397-404 : a JSON object whose action is none of the four
RecvUnrecognized ==
  /\ handler = "receiving"
  /\ UNCHANGED vars

\* lines 395-397 and 416-421 : json.loads or msg.get raises, the outer handler
\* sends an error message and the endpoint returns
RecvMalformed ==
  /\ handler = "receiving"
  /\ handler' = "errored"
  /\ log' = Append(log, ErrorMsg)
  /\ UNCHANGED <<road_matcher, call, roadworks_events, session, tasks, speed_msgs, idle>>

\* variant: the disconnect handler without stream_task.cancel()
RecvDisconnectNoCancel ==
  /\ handler = "receiving"
  /\ handler' = "disconnected"
  /\ UNCHANGED <<road_matcher, call, roadworks_events, session, tasks, log, speed_msgs, idle>>

\* lines 394 and 411-412 : receive_text raises WebSocketDisconnect
RecvDisconnect ==
  /\ handler = "receiving"
  /\ tasks' = cancel(tasks, stream_task)
  /\ handler' = "disconnected"
  /\ UNCHANGED <<road_matcher, call, roadworks_events, session, log, speed_msgs, idle>>

Control ==
  \/ RecvPause
  \/ RecvResume
  \/ \E msg \in SpeedMessages : RecvSetSpeed(msg)
  \/ RecvRestart
  \/ RecvUnrecognized
  \/ RecvMalformed
  \/ RecvDisconnect

Next ==
  \/ \E t \in 1..Len(tasks) : StreamStart(t)
  \/ \E t \in 1..Len(tasks) : SendEmpty(t)
  \/ \E t \in 1..Len(tasks) : PauseWake(t)
  \/ \E t \in 1..Len(tasks) : SendBatchMessage(t)
  \/ \E t \in 1..Len(tasks) : SendProgress(t)
  \/ \E t \in 1..Len(tasks) : TickWake(t)
  \/ \E t \in 1..Len(tasks) : SendComplete(t)
  \/ Control

Spec == Init /\ [][Next]_vars

(***************************************************************************)
(* POST /upload while a session is open: the handler replaces the module's *)
(* event list, which the session's batch loop reads at every use.          *)
(***************************************************************************)

\* the files uploaded during a session: one without roadworks events and the
\* runs of up to MaxEvents events that start at the feed's second event
UploadSeqs == {seq \in EventSeqs : Len(seq) = 0 \/ seq[1] = Feed[2]}

\* upload_events, line 214 : roadworks_events = new_roadworks
upload_events(new_roadworks) ==
  /\ roadworks_events' = new_roadworks
  /\ UNCHANGED <<road_matcher, call, session, tasks, handler, log, speed_msgs, idle>>

UploadNext ==
  \/ Next
  \/ \E new_roadworks \in UploadSeqs : upload_events(new_roadworks)

UploadSpec == Init /\ [][UploadNext]_vars

\* the event loop resumes every task whose await has completed: the batch
\* loop of stream_events is never left waiting forever while it can run
FairSpec == Init /\ [][Next]_vars /\ WF_vars(\E t \in 1..Len(tasks) : TaskStep(t))

(***************************************************************************)
(* matching.py called on its own: a matcher is loaded from a catalog and   *)
(* one of its methods is called once; call records the arguments and what  *)
(* the call returned.  No session is open.                                 *)
(***************************************************************************)
MatcherInit ==
  /\ road_matcher \in {RoadMatcher(table, radius) : table \in Catalogs, radius \in Radii}
  /\ call = NoCall
  /\ roadworks_events = <<>>
  /\ sent_segments = {}
  /\ event_idx = 0
  /\ paused = FALSE
  /\ current_batch_size = JsonInt(1)
  /\ current_tick_ms = JsonInt(50)
  /\ tasks = <<>>
  /\ handler = "closed"
  /\ log = <<>>
  /\ speed_msgs = 0
  /\ idle = 0

\* RoadMatcher.match(lon, lat, heading)
CallMatch ==
  /\ call = NoCall
  /\ \E lon \in Lons, lat \in Lats, heading \in Headings :
        call' = [op |-> "match", lon |-> lon, lat |-> lat, heading |-> heading,
                 result |-> match(road_matcher, lon, lat, heading)]
  /\ UNCHANGED <<road_matcher, roadworks_events, session, tasks, handler, log, speed_msgs, idle>>

\* RoadMatcher.get_segment_geojson(segment_id)
CallGetSegmentGeojson ==
  /\ call = NoCall
  /\ \E id \in Ids :
        call' = [op |-> "get_segment_geojson", id |-> id,
                 result |-> get_segment_geojson(road_matcher, id)]
  /\ UNCHANGED <<road_matcher, roadworks_events, session, tasks, handler, log, speed_msgs, idle>>

\* RoadMatcher._choose_direction(line, point, heading)
CallChooseDirection ==
  /\ call = NoCall
  /\ \E line \in Lines, heading \in {None} \cup {Some(h) : h \in AngleHeadings} :
        call' = [op |-> "_choose_direction", line |-> line, heading |-> heading,
                 result |-> _choose_direction(line, heading)]
  /\ UNCHANGED <<road_matcher, roadworks_events, session, tasks, handler, log, speed_msgs, idle>>

\* match, lines 228-239 : the alignment flag computed for a candidate line
CallAlignment ==
  /\ call = NoCall
  /\ \E line \in Lines, heading \in {None} \cup {Some(h) : h \in AngleHeadings} :
        call' = [op |-> "is_aligned", line |-> line, heading |-> heading,
                 result |-> is_aligned(line, heading)]
  /\ UNCHANGED <<road_matcher, roadworks_events, session, tasks, handler, log, speed_msgs, idle>>

MatcherNext ==
  \/ CallMatch
  \/ CallGetSegmentGeojson
  \/ CallChooseDirection
  \/ CallAlignment

MatcherSpec == MatcherInit /\ [][MatcherNext]_vars

(***************************************************************************)
(* Reading the messages of the session (log holds the messages emitted     *)
(* since the session started or was last restarted).                       *)
(***************************************************************************)
LogIdx(type) == {i \in 1..Len(log) : log[i].type = type}

Streamed == {"segment", "event", "progress"}

\* the last progress message before position p, 0 when there is none
PrevProgress(p) ==
  LET before == {q \in LogIdx("progress") : q < p}
  IN  IF before = {} THEN 0 ELSE CHOOSE q \in before : \A r \in before : r <= q

\* the cursor after the progress message at q (0 at the start of the session)
CursorAt(q) == IF q = 0 THEN 0 ELSE log[q].streamed

\* positions of the event messages strictly between positions q and p
EventsBetween(q, p) == {k \in (q + 1)..(p - 1) : log[k].type = "event"}

\* C1: in a session every segment id has at most one segment message, while
\* each batch still carries one event message per event it consumed: for
\* every id, as many event messages reporting it as events matching it.
C1_SegmentOncePerSession ==
  /\ \A i, j \in LogIdx("segment") : log[i].segment_id = log[j].segment_id => i = j
  /\ \A p \in LogIdx("progress") :
       LET q == PrevProgress(p)
           a == CursorAt(q)
           b == log[p].streamed
       IN  /\ Cardinality(EventsBetween(q, p)) = Max(b - a, 0)
           /\ \A id \in Range(matcher.segment_ids) :
                Cardinality({k \in EventsBetween(q, p) : log[k].matched_segment_id = id})
                  = Cardinality({i \in a..(b - 1) : MatchOf(PyIndex(i)).segment_id = id})

\* two events matching one id have their two event messages, the id one segment message
C1_Witness ==
  \E i, j \in LogIdx("event") :
     /\ i < j
     /\ log[i].matched
     /\ log[i].matched_segment_id = log[j].matched_segment_id
     /\ Cardinality({k \in LogIdx("segment") : log[k].segment_id = log[i].matched_segment_id}) = 1

\* C2: the segment message of an id precedes the first event message that
\* reports a match to it (it comes right before that event message), and the
\* event messages between two successive progress messages are exactly those
\* of the events the later progress message closes, in cursor order: a
\* progress message follows all event messages of its batch and precedes
\* every message of the next batch.
C2_MessageOrder ==
  /\ \A j \in LogIdx("event") :
       log[j].matched =>
         \E i \in LogIdx("segment") : i < j /\ log[i].segment_id = log[j].matched_segment_id
  /\ \A i \in LogIdx("segment") :
       i < Len(log) =>
         /\ log[i + 1].type \in {"event", "error"}
         /\ log[i + 1].type = "event" => log[i + 1].matched_segment_id = log[i].segment_id
  /\ \A p \in LogIdx("progress") :
       LET q == PrevProgress(p)
           a == CursorAt(q)
           b == log[p].streamed
           between == SelectSeq(SubSeq(log, q + 1, p - 1), LAMBDA m : m.type = "event")
       IN  /\ Len(between) = Max(b - a, 0)
           /\ \A k \in 1..Len(between) : between[k].event_id = PyIndex(a + k - 1).event_id

\* a batch with a segment and an event message, its progress, then the next batch
C2_Witness ==
  \E p \in LogIdx("progress") :
     /\ p > 2
     /\ log[p - 2].type = "segment"
     /\ log[p - 1].type = "event"
     /\ p < Len(log)
     /\ log[p + 1].type \in {"segment", "event"}

\* the messages a step adds to the log
Emitted == {log'[i] : i \in (Len(log) + 1)..Len(log')}

\* the task is at the while test of the batch loop (about to run it)
AtLoopTest(t) == tasks[t].pc \in {"start", "pause_sleep", "tick_sleep"}

\* C3 as stated: no step of the batch loop taken while the session is paused
\* consumes an event, emits a segment, event or progress message, or moves
\* the cursor, whenever the pause arrived.
C3_PausedLoopIsSilent ==
  [][ (paused /\ \E t \in 1..Len(tasks) : TaskStep(t)) =>
        /\ event_idx' = event_idx
        /\ sent_segments' = sent_segments
        /\ \A m \in Emitted : m.type \notin Streamed ]_vars

\* C3 (amended): a paused session starts no new batch. A batch loop that
\* comes to its while test while paused consumes no event, emits nothing of
\* a batch and leaves the cursor alone (it waits, or completes when the
\* cursor already is at the end); the batch that was already assembled when
\* the pause was processed is still sent to its end with its cursor advance
\* and progress message. The loop that waits keeps its cursor until it is
\* resumed, and the batch it then assembles starts at that cursor.
C3_PauseHoldsNextBatch ==
  [][ \A t \in 1..Len(tasks) :
        /\ (paused /\ AtLoopTest(t) /\ TaskStep(t)) =>
              /\ log' = log
              /\ event_idx' = event_idx
              /\ sent_segments' = sent_segments
              /\ tasks'[t].pc \in {"pause_sleep", "send_empty", "send_complete"}
        /\ (tasks[t].pc = "pause_sleep" /\ TaskStep(t)) =>
              /\ event_idx' = event_idx
              /\ tasks'[t].pc \in {"send_batch", "send_progress"} =>
                    /\ ~paused
                    /\ tasks'[t].batch_end = BatchEnd
                    /\ tasks'[t].batch_messages # <<>> =>
                          \E k \in 1..Len(tasks'[t].batch_messages) :
                             /\ tasks'[t].batch_messages[k].type = "event"
                             /\ tasks'[t].batch_messages[k].event_id = PyIndex(event_idx).event_id
                             /\ \A j \in 1..(k - 1) : tasks'[t].batch_messages[j].type = "segment" ]_vars

\* paused in mid-stream: the loop waits with part of the events streamed
C3_Witness ==
  /\ paused
  /\ tasks[stream_task].pc = "pause_sleep"
  /\ 0 < event_idx
  /\ event_idx < Len(roadworks_events)
  /\ LogIdx("progress") # {}

\* C4 as stated: a restart received in any state leaves the session
\* streaming, not paused, with the cursor at 0 and the announced set empty.
C4_RestartToStreaming ==
  [][ RecvRestart =>
        /\ event_idx' = 0
        /\ sent_segments' = {}
        /\ ~paused'
        /\ tasks'[Len(tasks')].pc = "start" ]_vars

\* the state a session is in when its first batch loop is created (lines 290-294, 390)
FreshSession ==
  /\ event_idx = 0
  /\ sent_segments = {}
  /\ paused = FALSE
  /\ log = <<>>
  /\ tasks[stream_task] = NewTask
  /\ \A t \in 1..(Len(tasks) - 1) : Finished(tasks[t])

\* C5 as stated: after a restart the count is 0 and the announced set empty,
\* and the session goes on as a fresh session with the same batch size and
\* tick interval does from its start: the restart leaves it in the state a
\* fresh session starts in, from which the same messages follow.
C5_RestartIsFreshSession ==
  [][ RecvRestart => FreshSession' ]_vars

\* C6: a session never has two batch loops running: every task but the
\* newest has ended (cancelled by the restart that replaced it, or returned
\* before), so it takes no further step on the cursor, the announced set or
\* the socket.
C6_OneBatchLoop ==
  /\ \A t \in 1..(Len(tasks) - 1) : Finished(tasks[t])
  /\ Cardinality({t \in 1..Len(tasks) : ~Finished(tasks[t])}) <= 1

\* a restart cancelled a suspended loop and the new loop has emitted messages
C6_Witness ==
  /\ Len(tasks) > 1
  /\ tasks[1].pc = "cancelled"
  /\ ~Finished(tasks[stream_task])
  /\ LogIdx("event") # {}

C8_EmptyCompletesAtOnce ==
  Len(roadworks_events) = 0 =>
    /\ \A i \in 1..Len(log) : log[i].type \notin Streamed
    /\ \A c \in LogIdx("complete") : c = 1 /\ log[c] = CompleteMsg(0, 0, TRUE)
    /\ event_idx = 0
    /\ sent_segments = {}
    /\ \A t \in 1..Len(tasks) : tasks[t].pc \in {"start", "send_empty", "done", "failed", "cancelled"}
    /\ tasks[stream_task].pc = "done" => LogIdx("complete") = {1}

\* the empty session has emitted its complete message and returned
C8_Witness ==
  /\ Len(roadworks_events) = 0
  /\ tasks[stream_task].pc = "done"
  /\ log = <<CompleteMsg(0, 0, TRUE)>>

\* C9 as stated: a malformed control message and one with an unrecognized
\* action change nothing of the session, emit no error message, and leave
\* the control loop receiving and the batch loop running.
C9_BadControlIgnored ==
  [][ (RecvMalformed \/ RecvUnrecognized) =>
        /\ UNCHANGED <<session, tasks>>
        /\ log' = log
        /\ handler' = "receiving" ]_vars

\* C10: once the control handler has ended on a disconnect observed by its
\* receive, no batch task of the session is alive: none can emit a message
\* or advance the cursor, none waits in a pacing or pause sleep.
C10_DisconnectCancelsTask ==
  handler = "disconnected" =>
    \A t \in 1..Len(tasks) : tasks[t].pc \in {"done", "failed", "cancelled"}

\* the consumer left in mid-stream and the suspended loop was cancelled
C10_Witness ==
  /\ handler = "disconnected"
  /\ tasks[stream_task].pc = "cancelled"
  /\ LogIdx("progress") # {}
  /\ event_idx < Len(roadworks_events)

\* the event messages among a task's queued batch messages
QueuedEvents(task) ==
  {k \in 1..Len(task.batch_messages) : task.batch_messages[k].type = "event"}

\* C11 as stated: a set_speed message leaves the batch in flight as it is
\* (same end, same queued messages, nothing emitted, cursor kept) and does
\* not interrupt the session: the batch loop of a connected session never
\* ends with an error, and every batch assembled afterwards holds at most
\* current_batch_size events.
C11_SetSpeedNextBatch ==
  [][ /\ (\E msg \in SpeedMessages : RecvSetSpeed(msg)) =>
            /\ tasks' = tasks
            /\ log' = log
            /\ event_idx' = event_idx
      /\ \A t \in 1..Len(tasks) :
            (handler = "receiving" /\ AtLoopTest(t) /\ TaskStep(t)) =>
               /\ tasks'[t].pc # "failed"
               /\ tasks'[t].pc \in {"send_batch", "send_progress"} =>
                     Cardinality(QueuedEvents(tasks'[t])) <= current_batch_size.val ]_vars

(***************************************************************************)
(* Reading a call of the matcher.                                          *)
(***************************************************************************)
\* how far (cm) the coordinate v lies outside the interval between p and q;
\* 300 m and more count as 300 m, which is beyond every radius in use
OutsideBy(v, p, q) ==
  IF v < Min(p, q) THEN Min(to_metric(Min(p, q)) - to_metric(v), 30000)
  ELSE IF v > Max(p, q) THEN Min(to_metric(v) - to_metric(Max(p, q)), 30000)
  ELSE 0

\* squared planar distance (cm^2) from the point to an axis-parallel line
SegmentDistance2(g, lon, lat) ==
  OutsideBy(lon, g.x1, g.x2) * OutsideBy(lon, g.x1, g.x2)
    + OutsideBy(lat, g.y1, g.y2) * OutsideBy(lat, g.y1, g.y2)

Slots == 1..Len(road_matcher.geometries)

\* the indexed segments within radius_m of the point of the match call
WithinRadius ==
  {k \in Slots : ~BeyondRadius(SegmentDistance2(road_matcher.geometries[k], call.lon, call.lat),
                               road_matcher.radius_m)}

\* C12: a match call for a point farther than radius_m from every indexed
\* segment returns the plain unmatched result, whether the tree query
\* finds no candidate or only candidates beyond the radius.
C12_FarPointUnmatched ==
  (call.op = "match" /\ WithinRadius = {}) => call.result = Unmatched

\* the query finds candidates and the distance test rejects them all
C12_Witness ==
  /\ call.op = "match"
  /\ tree_query(road_matcher, call.lon, call.lat) # {}
  /\ WithinRadius = {}
  /\ call.result = Unmatched

\* the segment of slot k is no worse than that of slot j under the key
\* (alignment descending, distance ascending)
NoWorse(k, j) ==
  \/ is_aligned(road_matcher.geometries[k], call.heading) /\ ~is_aligned(road_matcher.geometries[j], call.heading)
  \/ /\ is_aligned(road_matcher.geometries[k], call.heading) = is_aligned(road_matcher.geometries[j], call.heading)
     /\ SegmentDistance2(road_matcher.geometries[k], call.lon, call.lat)
          <= SegmentDistance2(road_matcher.geometries[j], call.lon, call.lat)

\* slot k is the one the result reports
Reported(k) ==
  /\ call.result.segment_id = road_matcher.segment_ids[k]
  /\ call.result.match_distance_m
       = Some(RoundSqrt(SegmentDistance2(road_matcher.geometries[k], call.lon, call.lat)))
  /\ call.result.snapped = Some(Snap(road_matcher.geometries[k], call.lon, call.lat))

\* C13: when segments lie within radius_m, match reports one of them that
\* is minimal under the key (alignment descending, distance ascending): the
\* nearest aligned one if any is aligned, else the nearest of all.
C13_BestByAlignmentThenDistance ==
  (call.op = "match" /\ WithinRadius # {}) =>
    /\ call.result.matched
    /\ \E k \in WithinRadius : Reported(k) /\ \A j \in WithinRadius : NoWorse(k, j)

\* an aligned segment is reported although a misaligned one is closer
C13_Witness ==
  /\ call.op = "match"
  /\ call.result.matched
  /\ \E k, j \in WithinRadius :
        /\ Reported(k)
        /\ is_aligned(road_matcher.geometries[k], call.heading)
        /\ ~is_aligned(road_matcher.geometries[j], call.heading)
        /\ SegmentDistance2(road_matcher.geometries[j], call.lon, call.lat)
             < SegmentDistance2(road_matcher.geometries[k], call.lon, call.lat)

C19_DirectionDiffInRange ==
  (call.op = "_choose_direction" /\ call.heading # None)
    => direction_diff(call.heading[1], _compute_bearing(call.line)) \in 0..180

\* C15 : the direction token is fwd when the heading is omitted; with a heading
\* it is fwd iff the angle between heading and segment bearing is at most 90
\* and rev otherwise; directed_id is the segment id followed by that token.
C15_DirectionToken ==
  LET between(heading, bearing) ==
        IF (heading - bearing) % 360 > 180
        THEN 360 - ((heading - bearing) % 360)
        ELSE (heading - bearing) % 360
      token(heading, g) ==
        IF heading = None THEN "fwd"
        ELSE IF between(heading[1], _compute_bearing(g)) <= 90 THEN "fwd" ELSE "rev"
  IN /\ call.op = "_choose_direction" => call.result = token(call.heading, call.line)
     /\ (call.op = "match" /\ call.result.matched)
          => \E k \in Slots :
               /\ road_matcher.segment_ids[k] = call.result.segment_id
               /\ call.result.snapped[1] = Snap(road_matcher.geometries[k], call.lon, call.lat)
               /\ call.result.directed_id =
                    <<call.result.segment_id, token(call.heading, road_matcher.geometries[k])>>

\* C16 : when the index was never built (no segment was loaded) every match
\* call returns matched = false with every other field absent, and no error.
C16_NoIndexUnmatched ==
  (call.op = "match" /\ road_matcher.geometries = << >>)
    => /\ ~road_matcher.tree
       /\ call.result = Unmatched

C16_Witness ==
  /\ call.op = "match"
  /\ Len(road_matcher.table) > 0
  /\ road_matcher.geometries = << >>
  /\ \E i \in 1..Len(road_matcher.table) :
        /\ road_matcher.table[i].kind = "LineString"
        /\ SegmentDistance2(road_matcher.table[i], call.lon, call.lat) = 0
  /\ call.result = Unmatched

\* the rows of the table that the load has to index
Indexable(table) ==
  {i \in 1..Len(table) : /\ table[i].class \notin EXCLUDED_CLASSES
                         /\ table[i].kind = "LineString"}

\* C17 : after the load no indexed segment comes from a row of an excluded
\* class, of undecodable geometry or of a geometry that is not a polyline;
\* every other row is indexed, once, with its own id and geometry.
C17_LoadFilters ==
  /\ Len(road_matcher.geometries) = Len(road_matcher.valid_to_table_index)
  /\ Len(road_matcher.segment_ids) = Len(road_matcher.valid_to_table_index)
  /\ \A k \in Slots :
        /\ road_matcher.valid_to_table_index[k] \in Indexable(road_matcher.table)
        /\ road_matcher.geometries[k] = road_matcher.table[road_matcher.valid_to_table_index[k]]
        /\ road_matcher.segment_ids[k] = road_matcher.table[road_matcher.valid_to_table_index[k]].segment_id
        /\ \A j \in Slots : j < k => road_matcher.valid_to_table_index[j] < road_matcher.valid_to_table_index[k]
  /\ \A i \in Indexable(road_matcher.table) : \E k \in Slots : road_matcher.valid_to_table_index[k] = i

C17_Witness ==
  /\ Len(road_matcher.geometries) = 3
  /\ \E i \in 1..Len(road_matcher.table) : road_matcher.table[i].class \in EXCLUDED_CLASSES
  /\ \E i \in 1..Len(road_matcher.table) : road_matcher.table[i].kind = "undecodable"
  /\ \E i \in 1..Len(road_matcher.table) : road_matcher.table[i].kind = "Point"
  /\ call.op = "match" /\ call.result.matched

\* C18 : get_segment_geojson(id) returns a feature iff id is the id of an
\* indexed segment, and then properties.segment_id is id; every segment_id a
\* successful match returns resolves to a feature; an unknown id gives nothing.
C18_FeatureIffIndexed ==
  /\ call.op = "get_segment_geojson"
       => /\ call.result # None <=> \E i \in Indexable(road_matcher.table) : road_matcher.table[i].segment_id = call.id
          /\ call.result # None => call.result[1].segment_id = call.id
  /\ (call.op = "match" /\ call.result.matched)
       => /\ get_segment_geojson(road_matcher, call.result.segment_id) # None
          /\ get_segment_geojson(road_matcher, call.result.segment_id)[1].segment_id = call.result.segment_id

C18_Witness ==
  /\ call.op = "get_segment_geojson"
  /\ call.result # None
  /\ call.result[1].segment_id = call.id
  /\ Cardinality({i \in Indexable(road_matcher.table) : road_matcher.table[i].segment_id = call.id}) = 2

\* C20 : the alignment flag is true when the heading is absent; otherwise it is
\* true iff the heading-to-bearing difference, reduced modulo 180 and reflected
\* into [0,90], is at most 60; headings h and h + 180 give the same flag.
C20_AlignmentFlag ==
  LET reduced(h, b) == (h - b) % 180
      reflected(h, b) == IF reduced(h, b) > 90 THEN 180 - reduced(h, b) ELSE reduced(h, b)
  IN call.op = "is_aligned"
       => IF call.heading = None THEN call.result = TRUE
          ELSE /\ reflected(call.heading[1], _compute_bearing(call.line)) \in 0..90
               /\ call.result = (reflected(call.heading[1], _compute_bearing(call.line)) <= 60)
               /\ call.result = is_aligned(call.line, Some(call.heading[1] + 180))

C20_Witness ==
  /\ call.op = "is_aligned"
  /\ call.heading # None
  /\ call.heading[1] < _compute_bearing(call.line)
  /\ (Abs(call.heading[1] - _compute_bearing(call.line)) % 180) > 90
  /\ call.result = TRUE

\* C21 : in a session over a non-empty event list whose consumer stays
\* connected, whatever pause, resume, restart and set_speed messages arrive
\* (set_speed with any values the handler stores), if every pause is followed
\* by a resume then the batch loop eventually emits a complete message.
\* Stated for the sessions in which the pauses come to an end, so that from
\* some point on the session is not paused: the session is paused again and
\* again, or the consumer goes away, or a complete message is emitted.
C21_EventuallyComplete ==
  \/ Len(roadworks_events) = 0
  \/ []<>paused
  \/ <>(handler # "receiving" \/ LogIdx("complete") # {})

\* C22 : in every reachable state of a session, whatever control messages
\* (set_speed with any batch_size included) and uploads replacing the event
\* list are interleaved with the batch loop, the cursor lies between 0 and the
\* number of events, every progress message has streamed <= total, and the
\* cursor never decreases except by a restart.
C22_CursorWithinList ==
  /\ [](/\ 0 <= event_idx
        /\ event_idx <= Len(roadworks_events)
        /\ \A p \in LogIdx("progress") : log[p].streamed <= log[p].total)
  /\ [][RecvRestart \/ event_idx' >= event_idx]_vars

====
